---- MODULE Spec2Model ----
(***************************************************************************)
(* Model of the log writer and rotation engine of UsefulHandler            *)
(* (logs.go, apache.go): the active log file, its size counter, the sink,  *)
(* the pool of temporary names, the archive counter cur and the goroutines *)
(* that log, rotate and recover cur.                                       *)
(*                                                                         *)
(* File names are sequences of ASCII codes, so that sort.Strings,          *)
(* strings.HasSuffix, strings.LastIndex, slicing, strconv.ParseInt and     *)
(* fmt.Sprintf("%010d") are computed as the Go code computes them.         *)
(***************************************************************************)
EXTENDS Integers, Sequences, FiniteSets, TLC

(***************************************************************************)
(* Bounds of the model.                                                    *)
(***************************************************************************)
\* number of HTTP exchanges; ServeHTTP calls Log once for each, in its own goroutine
MaxLogs == 2
\* largest number of bytes one Fprintf renders
MaxRec == 2
\* capacity handed to newRandPool (25 in NewLog)
PoolCap == 1
\* value given to the variable MaxFileSize (1 Gigabyte by default)
Threshold == 2
\* highest archive number found in the archive directory at startup
MaxOld == 1

(***************************************************************************)
(* Strings as sequences of ASCII codes.                                    *)
(***************************************************************************)
ChHash == 35
ChPlus == 43
ChMinus == 45
ChZero == 48
ChNine == 57
ChUnder == 95

\* "access.log"
LogName == <<97, 99, 99, 101, 115, 115, 46, 108, 111, 103>>
\* "._archive"
archPrefix == <<46, 95, 97, 114, 99, 104, 105, 118, 101>>
\* "_.gz"
GzSuffix == <<95, 46, 103, 122>>
\* "readme.txt", an entry of the archive directory that is no archive
OtherEntry == <<114, 101, 97, 100, 109, 101, 46, 116, 120, 116>>

\* Go's string comparison: bytewise, a proper prefix is smaller
RECURSIVE StrLess(_, _)
StrLess(s, t) ==
  IF t = <<>> THEN FALSE
  ELSE IF s = <<>> THEN TRUE
  ELSE IF Head(s) # Head(t) THEN Head(s) < Head(t)
  ELSE StrLess(Tail(s), Tail(t))

\* the last element of sort.Strings(names), names not empty
SortedLast(names) ==
  CHOOSE s \in names : \A t \in names : t = s \/ StrLess(t, s)

\* strings.HasSuffix
HasSuffix(s, suf) ==
  /\ Len(s) >= Len(suf)
  /\ SubSeq(s, Len(s) - Len(suf) + 1, Len(s)) = suf

\* strings.LastIndex for a one-byte substring: 0-based index, -1 when absent
LastIndex(s, ch) ==
  IF \E i \in 1..Len(s) : s[i] = ch
  THEN (CHOOSE i \in 1..Len(s) : s[i] = ch /\ \A j \in (i+1)..Len(s) : s[j] # ch) - 1
  ELSE -1

\* Go's s[lo:hi] with 0-based lo, hi; the caller checks 0 <= lo <= hi <= len(s)
Slice(s, lo, hi) == SubSeq(s, lo + 1, hi)

IsDigit(c) == c >= ChZero /\ c <= ChNine

\* the number the first k digits of s denote
RECURSIVE DigitsUpTo(_, _)
DigitsUpTo(s, k) ==
  IF k = 0 THEN 0
  ELSE 10 * DigitsUpTo(s, k - 1) + (s[k] - ChZero)

DigitsValue(s) == DigitsUpTo(s, Len(s))

\* strconv.ParseInt(s, 10, 64): [ok, val]; an optional sign, then one or more digits
ParseInt(s) ==
  LET signed == s # <<>> /\ (s[1] = ChPlus \/ s[1] = ChMinus)
      body == IF signed THEN Tail(s) ELSE s
  IN  IF body = <<>> \/ \E i \in 1..Len(body) : ~IsDigit(body[i])
      THEN [ok |-> FALSE, val |-> 0]
      ELSE [ok |-> TRUE,
            val |-> IF signed /\ s[1] = ChMinus THEN -DigitsValue(body)
                    ELSE DigitsValue(body)]

\* strconv.Itoa for n >= 0
RECURSIVE Itoa(_)
Itoa(n) ==
  IF n < 10 THEN <<ChZero + n>>
  ELSE Itoa(n \div 10) \o <<ChZero + (n % 10)>>

RECURSIVE ZeroPad(_, _)
ZeroPad(s, width) == IF Len(s) >= width THEN s ELSE ZeroPad(<<ChZero>> \o s, width)

\* the directory entry fmt.Sprintf("%s#%010d_.gz", path, cur) creates in ArchiveDir
ArchiveName(n) == LogName \o <<ChHash>> \o ZeroPad(Itoa(n), 10) \o GzSuffix

(***************************************************************************)
(* findCur: the value it assigns to cur for a directory listing, or a      *)
(* panic.                                                                  *)
(***************************************************************************)
\* the slice bounds of highest[h+1:u-1]
FindCurBounds(highest) ==
  [h |-> LastIndex(highest, ChHash), u |-> LastIndex(highest, ChUnder)]

findCur(names) ==
  IF names = {} THEN [panic |-> FALSE, cur |-> 0]
  ELSE LET highest == SortedLast(names)
           b == FindCurBounds(highest)
       IN  IF ~HasSuffix(highest, GzSuffix) THEN [panic |-> FALSE, cur |-> 0]
           ELSE IF b.h = -1 \/ b.u = -1 THEN [panic |-> TRUE, cur |-> 0]
           ELSE IF b.h + 1 > b.u - 1 THEN [panic |-> TRUE, cur |-> 0]
           ELSE LET p == ParseInt(Slice(highest, b.h + 1, b.u - 1))
                IN  [panic |-> ~p.ok, cur |-> p.val]

(***************************************************************************)
(* nextSuffix: the generator of temporary names.  rand is a uint32, kept   *)
(* as its two 16-bit halves <<hi, lo>> so that r*1664525 + 1013904223 is   *)
(* computed modulo 2^32 without leaving the range of the model's integers. *)
(***************************************************************************)
Half == 65536
\* 1664525 = LcgMulHi * 65536 + LcgMulLo
LcgMulHi == 25
LcgMulLo == 26125
\* 1013904223 = LcgAddHi * 65536 + LcgAddLo
LcgAddHi == 15470
LcgAddLo == 62303
\* 1e9, and 2^15 (65536 = 2^15 * 2)
Billion == 1000000000
HalfHalf == 32768

RandZero == <<0, 0>>

\* r*1664525 + 1013904223 as a uint32
Lcg(r) ==
  LET lo == r[2] * LcgMulLo + LcgAddLo
      hi == r[1] * LcgMulLo + r[2] * LcgMulHi + LcgAddHi + (lo \div Half)
  IN  <<hi % Half, lo % Half>>

\* r % 1e9 for the uint32 r
ModBillion(r) == ((((r[1] * HalfHalf) % Billion) * 2) + r[2]) % Billion

\* values reseed() returns: 634785765 (which the generator maps to 0) and 1
Seeds == {<<9686, 4069>>, <<0, 1>>}

\* nextSuffix with reseed() returning seed: the new rand and the suffix
nextSuffix(r, seed) ==
  LET r1 == Lcg(IF r = RandZero THEN seed ELSE r)
  IN  [rand |-> r1, suffix |-> Tail(Itoa(Billion + ModBillion(r1)))]

\* randName(archPrefix): os.IsExist is never true of the error of os.Stat, so
\* the loop always breaks in its first iteration, whether or not the file exists
randName(r, seed) ==
  LET x == nextSuffix(r, seed)
  IN  [rand |-> x.rand, name |-> archPrefix \o x.suffix]

(***************************************************************************)
(* randPool: the channel of names, as the sequence of its buffered values. *)
(***************************************************************************)
\* put on a channel without capacity limit
putUnbounded(c, s) == Append(c, s)

\* randPool.put: send, or discard when the channel is full
put(c, s) == IF Len(c) < PoolCap THEN Append(c, s) ELSE c

\* randPool.get: receive, or randName when the channel is empty
get(c, r, seed) ==
  IF c # <<>> THEN [c |-> Tail(c), rand |-> r, s |-> Head(c)]
  ELSE LET x == randName(r, seed) IN [c |-> c, rand |-> x.rand, s |-> x.name]

\* newRandPool(n): the pools and generator states n puts of fresh names lead to
RECURSIVE newRandPool(_)
newRandPool(n) ==
  IF n = 0 THEN {[c |-> <<>>, rand |-> RandZero]}
  ELSE {[c |-> put(p.c, randName(p.rand, seed).name),
         rand |-> randName(p.rand, seed).rand] :
           p \in newRandPool(n - 1), seed \in Seeds}

(***************************************************************************)
(* The log formats of apache.go and fmt.Fprintf on them.  A format is the  *)
(* sequence of the bytes of the Go constant; Fprintf copies its bytes and  *)
(* replaces every verb by the rendering of the next argument.              *)
(***************************************************************************)
ChNewline == 10
ChPercent == 37
ChDot == 46
ChVerbD == 100
ChVerbF == 102

\* "%s - - [%s] \"%s %d %d\" %f\n"
CommonLog ==
  <<37, 115, 32, 45, 32, 45, 32, 91, 37, 115, 93, 32, 34, 37, 115, 32, 37,
  100, 32, 37, 100, 34, 32, 37, 102, 10>>

\* "%s %s - - [%s] \"%s %d %d\" %f\n"
CommonLogWithVHost ==
  <<37, 115, 32, 37, 115, 32, 45, 32, 45, 32, 91, 37, 115, 93, 32, 34, 37,
  115, 32, 37, 100, 32, 37, 100, 34, 32, 37, 102, 10>>

\* "%s - - [%s] \"%s %d %d\" %f\n \"%s\" \"%s\""
NCSALog ==
  <<37, 115, 32, 45, 32, 45, 32, 91, 37, 115, 93, 32, 34, 37, 115, 32, 37,
  100, 32, 37, 100, 34, 32, 37, 102, 10, 32, 34, 37, 115, 34, 32, 34, 37,
  115, 34>>

\* "%s -> %s"
RefererLog ==
  <<37, 115, 32, 45, 62, 32, 37, 115>>

\* "%s"
AgentLog ==
  <<37, 115>>

Formats == {CommonLog, CommonLogWithVHost, NCSALog, RefererLog, AgentLog}

\* "Jan", "Feb", ...: the month names of time.Format
MonthNames ==
  <<<<74, 97, 110>>,
    <<70, 101, 98>>,
    <<77, 97, 114>>,
    <<65, 112, 114>>,
    <<77, 97, 121>>,
    <<74, 117, 110>>,
    <<74, 117, 108>>,
    <<65, 117, 103>>,
    <<83, 101, 112>>,
    <<79, 99, 116>>,
    <<78, 111, 118>>,
    <<68, 101, 99>>>>

\* %d of an integer
FormatInt(n) == IF n < 0 THEN <<ChMinus>> \o Itoa(-n) ELSE Itoa(n)

\* %f of Duration.Seconds(), the duration d >= 0 being in nanoseconds: six
\* digits after the point, the seventh rounded
Million == 1000000
FormatSeconds(d) ==
  LET micro == (d + 500) \div 1000
  IN  Itoa(micro \div Million) \o <<ChDot>> \o ZeroPad(Itoa(micro % Million), 6)

\* r.time.Format("02/Jan/2006 03:04:05"): the hour is that of the 12-hour clock
FormatTime(t) ==
  LET h12 == IF t.hour % 12 = 0 THEN 12 ELSE t.hour % 12
  IN  ZeroPad(Itoa(t.day), 2) \o <<47>> \o MonthNames[t.month] \o <<47>>
        \o ZeroPad(Itoa(t.year), 4) \o <<32>> \o ZeroPad(Itoa(h12), 2) \o <<58>>
        \o ZeroPad(Itoa(t.minute), 2) \o <<58>> \o ZeroPad(Itoa(t.second), 2)

\* the rendering of argument a, [s], [d] or [f], for a verb
FormatArg(verb, a) ==
  CASE verb = ChVerbD -> FormatInt(a.d)
    [] verb = ChVerbF -> FormatSeconds(a.f)
    [] OTHER -> a.s

\* the bytes fmt.Fprintf(w, format, args...) writes
RECURSIVE Fprintf(_, _)
Fprintf(format, args) ==
  IF format = <<>> THEN <<>>
  ELSE IF Head(format) = ChPercent /\ Len(format) >= 2 /\ args # <<>>
       THEN FormatArg(format[2], Head(args))
              \o Fprintf(SubSeq(format, 3, Len(format)), Tail(args))
       ELSE <<Head(format)>> \o Fprintf(Tail(format), args)

\* the bytes one call of Log writes for record r under the format logFormat
LogBytes(logFormat, r) ==
  LET timeFormatted == [s |-> FormatTime(r.time)]
      requestLine == [s |-> r.method \o <<32>> \o r.uri \o <<32>> \o r.protocol]
      common == <<[s |-> r.ip], timeFormatted, requestLine, [d |-> r.status],
                  [d |-> r.responseBytes], [f |-> r.elapsedTime]>>
  IN  CASE logFormat = CommonLogWithVHost ->
             Fprintf(CommonLogWithVHost, <<[s |-> <<ChMinus>>]>> \o common)
        [] logFormat = NCSALog ->
             Fprintf(NCSALog, common \o <<[s |-> r.referer], [s |-> r.agent]>>)
        [] logFormat = RefererLog ->
             Fprintf(RefererLog, <<[s |-> r.referer], [s |-> r.uri]>>)
        [] logFormat = AgentLog -> Fprintf(AgentLog, <<[s |-> r.agent]>>)
        [] OTHER -> Fprintf(CommonLog, common)

\* the records ServeHTTP builds for the requests of the model
\* "127.0.0.1"
IpLoopback ==
  <<49, 50, 55, 46, 48, 46, 48, 46, 49>>
\* "[::1]"
IpSix ==
  <<91, 58, 58, 49, 93>>
\* "GET"
MethodGet ==
  <<71, 69, 84>>
\* "/"
UriRoot ==
  <<47>>
\* "/a?b=1"
UriQuery ==
  <<47, 97, 63, 98, 61, 49>>
\* "HTTP/1.1"
ProtoHttp ==
  <<72, 84, 84, 80, 47, 49, 46, 49>>
\* "http://x/"
RefererSite ==
  <<104, 116, 116, 112, 58, 47, 47, 120, 47>>
\* "curl/8.0"
AgentCurl ==
  <<99, 117, 114, 108, 47, 56, 46, 48>>
TimeZero == [year |-> 1, month |-> 1, day |-> 1, hour |-> 0, minute |-> 0, second |-> 0]
TimeNoon == [year |-> 2015, month |-> 12, day |-> 31, hour |-> 12, minute |-> 5, second |-> 59]
TimeLate == [year |-> 2015, month |-> 6, day |-> 9, hour |-> 23, minute |-> 0, second |-> 0]

Requests ==
  [ip : {IpLoopback, IpSix}, time : {TimeNoon, TimeLate}, method : {MethodGet},
   uri : {UriRoot, UriQuery}, protocol : {ProtoHttp}, status : {200, 404},
   responseBytes : {0, 13}, elapsedTime : {0, 1234567},
   referer : {<<>>, RefererSite}, agent : {<<>>, AgentCurl}]

\* no request was served yet
NoRequests ==
  [ip : {<<>>}, time : {TimeZero}, method : {<<>>}, uri : {<<>>}, protocol : {<<>>},
   status : {0}, responseBytes : {0}, elapsedTime : {0}, referer : {<<>>},
   agent : {<<>>}]

(***************************************************************************)
(* State.                                                                  *)
(***************************************************************************)
VARIABLES
  LogDestination, \* "Stdout", "File" or "Both"
  MaxFileSize,    \* rotation threshold in bytes
  recLens,        \* the byte counts the requests served render to
  file,           \* Log.file: the inode the open handle refers to
  size,           \* Log.size
  out,            \* Log.out: [stdout, file], file = NoFile when the sink has none
  pool,           \* Log.pool.c
  mu,             \* Log.RWMutex: 0 when free, else the goroutine holding it
  rand,           \* the generator state of nextSuffix
  cur,            \* the archive counter
  inodes,         \* content of every file of the working directory, by inode
  logEntry,       \* the inode the directory entry LogName refers to
  tmpDir,         \* the directory entries with a temporary name: name -> inode
  archDir,        \* ArchiveDir: entry name -> content
  stdout,         \* what was written to os.Stdout
  callers,        \* the goroutines calling Log: [pc, rec, n]
  rots,           \* the goroutines running Rotate: [pc, name, num, src], and as
                  \* history recovered: findCur had returned when cur was read,
                  \* moved: the inode Rename moved, fail: the call that failed
  fc,             \* the goroutine running findCur: [pc, names]
  panicked,       \* a goroutine panicked: the process is gone
  lens,           \* history: the byte count of each record written
  appended,       \* history: bytes Log.file holds that were appended since the last
                  \* rotation (the content found at NewLog counts as appended)
  crossings,      \* history: Log calls that took size from below MaxFileSize to it or above
  filed,          \* history: records a Log call appended to a file
  startDir,       \* history: the entries of ArchiveDir at startup
  LogFormat,      \* the format string Log renders a record with
  request,        \* the ApacheLogRecord of the request being rendered
  rendered        \* the byte sequences Fprintf made of request, one for each call

vars == <<LogDestination, MaxFileSize, recLens, file, size, out, pool, mu, rand, cur,
          inodes, logEntry, tmpDir, archDir, stdout, callers, rots, fc,
          panicked, lens, appended, crossings, filed, startDir,
          LogFormat, request, rendered>>

formatState == <<LogFormat, request, rendered>>
config == <<LogDestination, MaxFileSize, recLens, startDir, formatState>>
logState == <<file, size, out>>
fsState == <<inodes, logEntry, tmpDir>>
history == <<lens, appended, crossings, filed>>

NoFile == 0
Callers == 1..MaxLogs
\* the goroutine id of the i-th Rotate, the Log calls having the ids before
RotId(i) == Cardinality(DOMAIN callers) + i

\* record 0 is the content access.log may have at startup, PreLen bytes long
PreLen == 1

\* the content every archive found at startup has
OldArchive == <<-1>>

\* the directory listings of ArchiveDir at startup
StartDirs == {{}, {ArchiveName(i) : i \in 0..MaxOld}}

\* a directory without entries
EmptyDir == [e \in {} |-> NoFile]

\* d with entry e set to v
WithEntry(d, e, v) == [x \in DOMAIN d \cup {e} |-> IF x = e THEN v ELSE d[x]]

\* d without entry e
WithoutEntry(d, e) == [x \in DOMAIN d \ {e} |-> d[x]]

\* Lock that does not wait for the holder
LockNoWait(t) == mu' = t

\* sync.RWMutex.Lock by goroutine t
Lock(t) == mu = 0 /\ mu' = t

\* SetWriter that leaves Log.out as it is after a rotation
SetWriterStale(init, f) == IF init THEN [stdout |-> TRUE, file |-> f] ELSE out

\* Log.SetWriter(init): the new value of Log.out, f being Log.file
SetWriter(init, f) ==
  IF init THEN [stdout |-> TRUE, file |-> f]
  ELSE CASE LogDestination = "Stdout" -> [stdout |-> TRUE, file |-> NoFile]
         [] LogDestination = "File" -> [stdout |-> FALSE, file |-> f]
         [] OTHER -> [stdout |-> TRUE, file |-> f]

(***************************************************************************)
(* SetLog: NewLog on a log file that is new or has content, then Start,    *)
(* which leaves findCur running in its own goroutine.                      *)
(***************************************************************************)
\* dirs: the listings of ArchiveDir; cs: the Log calls; max: MaxFileSize; rl: the
\* byte counts of records; pres: the contents of LogName; fmts: the values of
\* LogFormat; reqs: the requests
InitOf(dirs, cs, max, rl, pres, fmts, reqs) ==
  /\ LogDestination \in {"Stdout", "File", "Both"}
  /\ MaxFileSize = max
  /\ recLens = rl
  /\ LogFormat \in fmts
  /\ request \in reqs
  /\ rendered = <<>>
  /\ \E pre \in pres :
       /\ inodes = <<pre>>
       /\ size = Len(pre) * PreLen
       /\ appended = Len(pre) * PreLen
  /\ logEntry = 1
  /\ file = 1
  /\ out = SetWriter(TRUE, 1)
  /\ \E p \in newRandPool(PoolCap) : pool = p.c /\ rand = p.rand
  /\ mu = 0
  /\ cur = 0
  /\ tmpDir = EmptyDir
  /\ startDir \in dirs
  /\ archDir = [e \in startDir |-> OldArchive]
  /\ stdout = <<>>
  /\ callers = [c \in cs |-> [pc |-> "lock", rec |-> 0, n |-> 0]]
  /\ rots = <<>>
  /\ fc = [pc |-> "read", names |-> {}]
  /\ panicked = FALSE
  /\ lens = <<>>
  /\ crossings = 0
  /\ filed = {}

\* the model's bounds, LogFormat at its default
InitWith(dirs) ==
  InitOf(dirs, Callers, Threshold, 1..MaxRec, {<<>>, <<0>>}, {CommonLog}, NoRequests)

Init == InitWith(StartDirs)

(***************************************************************************)
(* ApacheLogRecord.Log                                                     *)
(***************************************************************************)
\* LogFile.Lock()
LogLock(c) ==
  /\ ~panicked
  /\ callers[c].pc = "lock"
  /\ Lock(c)
  /\ callers' = [callers EXCEPT ![c].pc = "fmt"]
  /\ UNCHANGED <<config, logState, pool, rand, cur, fsState, archDir, stdout,
                 rots, fc, panicked, history>>

\* n, _ = fmt.Fprintf(LogFile.out, ...): n bytes go to every writer of the sink
LogFprintf(c) ==
  /\ ~panicked
  /\ callers[c].pc = "fmt"
  /\ \E n \in recLens :
       LET rec == Len(lens) + 1 IN
       /\ lens' = Append(lens, n)
       /\ callers' = [callers EXCEPT ![c] = [pc |-> "count", rec |-> rec, n |-> n]]
       /\ stdout' = IF out.stdout THEN Append(stdout, rec) ELSE stdout
       /\ inodes' = IF out.file # NoFile
                    THEN [inodes EXCEPT ![out.file] = Append(@, rec)]
                    ELSE inodes
       /\ filed' = IF out.file # NoFile THEN filed \cup {rec} ELSE filed
       /\ appended' = IF out.file = file THEN appended + n ELSE appended
  /\ UNCHANGED <<config, logState, pool, mu, rand, cur, logEntry, tmpDir,
                 archDir, rots, fc, panicked, crossings>>

\* if LogFile.size+int64(n) >= MaxFileSize { go LogFile.Rotate() }; LogFile.size += int64(n)
LogCount(c) ==
  /\ ~panicked
  /\ callers[c].pc = "count"
  /\ LET n == callers[c].n IN
       /\ rots' = IF size + n >= MaxFileSize
                  THEN Append(rots, [pc |-> "lock", name |-> <<>>, num |-> 0,
                                    src |-> NoFile, recovered |-> FALSE,
                                    moved |-> NoFile, fail |-> "none"])
                  ELSE rots
       /\ crossings' = IF size < MaxFileSize /\ size + n >= MaxFileSize
                       THEN crossings + 1 ELSE crossings
       /\ size' = size + n
  /\ callers' = [callers EXCEPT ![c].pc = "ret"]
  /\ UNCHANGED <<config, file, out, pool, mu, rand, cur, fsState, archDir,
                 stdout, fc, panicked, lens, appended, filed>>

\* the deferred LogFile.Unlock()
LogReturn(c) ==
  /\ ~panicked
  /\ callers[c].pc = "ret"
  /\ mu' = 0
  /\ callers' = [callers EXCEPT ![c].pc = "done"]
  /\ UNCHANGED <<config, logState, pool, rand, cur, fsState, archDir, stdout,
                 rots, fc, panicked, history>>

(***************************************************************************)
(* Log.Rotate, run by the goroutine `go LogFile.Rotate()` starts.          *)
(***************************************************************************)
\* l.Lock()
RotateLock(i) ==
  /\ ~panicked
  /\ rots[i].pc = "lock"
  /\ Lock(RotId(i))
  /\ rots' = [rots EXCEPT ![i].pc = "swap"]
  /\ UNCHANGED <<config, logState, pool, rand, cur, fsState, archDir, stdout,
                 callers, fc, panicked, history>>

\* randName := l.pool.get(); os.Rename(LogName, randName); l.file, err = newFile();
\* l.size = 0; l.SetWriter(false)
\* Rename moves the inode of LogName to randName, replacing an entry of that
\* name; newFile then finds no LogName and creates an empty file.
RotateSwap(i) ==
  /\ ~panicked
  /\ rots[i].pc = "swap"
  /\ \E seed \in Seeds :
       LET g == get(pool, rand, seed)
           fresh == Len(inodes) + 1
       IN  /\ pool' = g.c
           /\ rand' = g.rand
           /\ tmpDir' = WithEntry(tmpDir, g.s, logEntry)
           /\ inodes' = Append(inodes, <<>>)
           /\ logEntry' = fresh
           /\ file' = fresh
           /\ size' = 0
           /\ out' = SetWriter(FALSE, fresh)
           /\ rots' = [rots EXCEPT ![i].pc = "unlock", ![i].name = g.s,
                                    ![i].moved = logEntry]
  /\ appended' = 0
  /\ UNCHANGED <<config, mu, cur, archDir, stdout, callers, fc, panicked,
                 lens, crossings, filed>>

\* Rotate that keeps the lock through the archival phase
RotateUnlockLate(i) ==
  /\ ~panicked
  /\ rots[i].pc = "unlock"
  /\ rots' = [rots EXCEPT ![i].pc = "put"]
  /\ UNCHANGED <<config, logState, pool, mu, rand, cur, fsState, archDir, stdout,
                 callers, fc, panicked, history>>

\* l.Unlock()
RotateUnlock(i) ==
  /\ ~panicked
  /\ rots[i].pc = "unlock"
  /\ mu' = 0
  /\ rots' = [rots EXCEPT ![i].pc = "put"]
  /\ UNCHANGED <<config, logState, pool, rand, cur, fsState, archDir, stdout,
                 callers, fc, panicked, history>>

\* l.pool.put(randName)
RotatePut(i) ==
  /\ ~panicked
  /\ rots[i].pc = "put"
  /\ pool' = put(pool, rots[i].name)
  /\ rots' = [rots EXCEPT ![i].pc = "name"]
  /\ UNCHANGED <<config, logState, mu, rand, cur, fsState, archDir, stdout,
                 callers, fc, panicked, history>>

\* archiveName := fmt.Sprintf("%s#%010d_.gz", path, cur): the read of cur
RotateName(i) ==
  /\ ~panicked
  /\ rots[i].pc = "name"
  /\ rots' = [rots EXCEPT ![i].pc = "inc", ![i].num = cur,
                           ![i].recovered = (fc.pc = "done")]
  /\ UNCHANGED <<config, logState, pool, mu, rand, cur, fsState, archDir,
                 stdout, callers, fc, panicked, history>>

\* cur++, not synchronised: the value stored is one more than the value cur has
\* now, or one more than the value this goroutine loaded before
RotateInc(i) ==
  /\ ~panicked
  /\ rots[i].pc = "inc"
  /\ \E loaded \in {cur, rots[i].num} : cur' = loaded + 1
  /\ rots' = [rots EXCEPT ![i].pc = "create"]
  /\ UNCHANGED <<config, logState, pool, mu, rand, fsState, archDir, stdout,
                 callers, fc, panicked, history>>

\* archive, err := os.Create(archiveName): creates the entry or truncates it
RotateCreate(i) ==
  /\ ~panicked
  /\ rots[i].pc = "create"
  /\ archDir' = WithEntry(archDir, ArchiveName(rots[i].num), <<>>)
  /\ rots' = [rots EXCEPT ![i].pc = "open"]
  /\ UNCHANGED <<config, logState, pool, mu, rand, cur, fsState, stdout,
                 callers, fc, panicked, history>>

\* oldLog, err := os.Open(randName); panic(err) when no such entry exists
RotateOpen(i) ==
  /\ ~panicked
  /\ rots[i].pc = "open"
  /\ IF rots[i].name \in DOMAIN tmpDir
     THEN /\ rots' = [rots EXCEPT ![i].pc = "copy", ![i].src = tmpDir[rots[i].name]]
          /\ UNCHANGED panicked
     ELSE /\ panicked' = TRUE
          /\ rots' = [rots EXCEPT ![i].pc = "panic"]
  /\ UNCHANGED <<config, logState, pool, mu, rand, cur, fsState, archDir,
                 stdout, callers, fc, history>>

\* io.Copy(gzw, oldLog): the archive handle writes the file's content from offset 0
RotateCopy(i) ==
  /\ ~panicked
  /\ rots[i].pc = "copy"
  /\ archDir' = WithEntry(archDir, ArchiveName(rots[i].num), inodes[rots[i].src])
  /\ rots' = [rots EXCEPT ![i].pc = "remove"]
  /\ UNCHANGED <<config, logState, pool, mu, rand, cur, fsState, stdout,
                 callers, fc, panicked, history>>

\* err = os.Remove(randName); panic(err) when no such entry exists
RotateRemove(i) ==
  /\ ~panicked
  /\ rots[i].pc = "remove"
  /\ IF rots[i].name \in DOMAIN tmpDir
     THEN /\ tmpDir' = WithoutEntry(tmpDir, rots[i].name)
          /\ rots' = [rots EXCEPT ![i].pc = "done"]
          /\ UNCHANGED panicked
     ELSE /\ panicked' = TRUE
          /\ rots' = [rots EXCEPT ![i].pc = "panic"]
          /\ UNCHANGED tmpDir
  /\ UNCHANGED <<config, logState, pool, mu, rand, cur, inodes, logEntry,
                 archDir, stdout, callers, fc, history>>

(***************************************************************************)
(* The goroutine of findCur.                                               *)
(***************************************************************************)
\* names, err := dir.Readdirnames(-1)
FindCurRead ==
  /\ ~panicked
  /\ fc.pc = "read"
  /\ fc' = [pc |-> "set", names |-> DOMAIN archDir]
  /\ UNCHANGED <<config, logState, pool, mu, rand, cur, fsState, archDir,
                 stdout, callers, rots, panicked, history>>

\* the rest of findCur: the assignment to cur, or the panic
FindCurSet ==
  /\ ~panicked
  /\ fc.pc = "set"
  /\ LET r == findCur(fc.names) IN
       IF r.panic
       THEN /\ panicked' = TRUE
            /\ UNCHANGED <<cur, fc>>
       ELSE /\ cur' = r.cur
            /\ fc' = [fc EXCEPT !.pc = "done"]
            /\ UNCHANGED panicked
  /\ UNCHANGED <<config, logState, pool, mu, rand, fsState, archDir, stdout,
                 callers, rots, history>>

Next ==
  \/ \E c \in Callers : LogLock(c)
  \/ \E c \in Callers : LogFprintf(c)
  \/ \E c \in Callers : LogCount(c)
  \/ \E c \in Callers : LogReturn(c)
  \/ \E i \in DOMAIN rots : RotateLock(i)
  \/ \E i \in DOMAIN rots : RotateSwap(i)
  \/ \E i \in DOMAIN rots : RotateUnlock(i)
  \/ \E i \in DOMAIN rots : RotatePut(i)
  \/ \E i \in DOMAIN rots : RotateName(i)
  \/ \E i \in DOMAIN rots : RotateInc(i)
  \/ \E i \in DOMAIN rots : RotateCreate(i)
  \/ \E i \in DOMAIN rots : RotateOpen(i)
  \/ \E i \in DOMAIN rots : RotateCopy(i)
  \/ \E i \in DOMAIN rots : RotateRemove(i)
  \/ FindCurRead
  \/ FindCurSet

Spec == Init /\ [][Next]_vars

(***************************************************************************)
(* Rotate with filesystem calls that fail.                                 *)
(***************************************************************************)
\* os.Rename fails and its error is dropped; newFile then opens the file that
\* is still at LogName; l.size = 0; l.SetWriter(false)
RotateSwapRenameFails(i) ==
  /\ ~panicked
  /\ rots[i].pc = "swap"
  /\ \E seed \in Seeds :
       LET g == get(pool, rand, seed)
       IN  /\ pool' = g.c
           /\ rand' = g.rand
           /\ rots' = [rots EXCEPT ![i].pc = "unlock", ![i].name = g.s,
                                    ![i].fail = "rename"]
  /\ file' = logEntry
  /\ size' = 0
  /\ out' = SetWriter(FALSE, logEntry)
  /\ UNCHANGED <<config, mu, cur, fsState, archDir, stdout, callers, fc,
                 panicked, history>>

\* os.Rename succeeds, newFile fails: panic(err) before l.Unlock()
RotateSwapNewFileFails(i) ==
  /\ ~panicked
  /\ rots[i].pc = "swap"
  /\ \E seed \in Seeds :
       LET g == get(pool, rand, seed)
       IN  /\ pool' = g.c
           /\ rand' = g.rand
           /\ tmpDir' = WithEntry(tmpDir, g.s, logEntry)
           /\ rots' = [rots EXCEPT ![i].pc = "panic", ![i].name = g.s,
                                    ![i].moved = logEntry, ![i].fail = "newFile"]
  /\ logEntry' = NoFile
  /\ panicked' = TRUE
  /\ UNCHANGED <<config, logState, mu, cur, inodes, archDir, stdout, callers,
                 fc, history>>

\* os.Create(archiveName), io.Copy or os.Remove fails: panic(err)
RotateArchiveFails(i) ==
  /\ ~panicked
  /\ rots[i].pc \in {"create", "copy", "remove"}
  /\ rots' = [rots EXCEPT ![i].pc = "panic", ![i].fail = rots[i].pc]
  /\ panicked' = TRUE
  /\ UNCHANGED <<config, logState, pool, mu, rand, cur, fsState, archDir,
                 stdout, callers, fc, history>>

NextFault ==
  \/ Next
  \/ \E i \in DOMAIN rots : RotateSwapRenameFails(i)
  \/ \E i \in DOMAIN rots : RotateSwapNewFileFails(i)
  \/ \E i \in DOMAIN rots : RotateArchiveFails(i)

\* an empty archive directory and the default LogDestination
InitDefault == InitWith({{}}) /\ LogDestination = "Both"

SpecFault == InitDefault /\ [][NextFault]_vars

(***************************************************************************)
(* The scheduler runs a goroutine whenever one can take a step: weak       *)
(* fairness of Next.  Every Log call writes MaxFileSize bytes to a log     *)
(* that was empty, so every call starts a Rotate.                          *)
(***************************************************************************)
InitFair ==
  /\ InitOf({{}}, Callers, Threshold, {Threshold}, {<<>>}, {CommonLog}, NoRequests)
  /\ LogDestination = "Both"

SpecFair == InitFair /\ [][Next]_vars /\ WF_vars(Next)

(***************************************************************************)
(* The scenario of five successive writes of 30 bytes on a new log with a  *)
(* threshold of 100 bytes: each Log call starts when the one before has    *)
(* returned; the Rotate goroutines and findCur run as they are scheduled.  *)
(***************************************************************************)
ScenarioCallers == 1..5

InitScenario ==
  InitOf({{}}, ScenarioCallers, 100, {30}, {<<>>}, {CommonLog}, NoRequests)

\* the c-th call of Log, made after the call before it has returned
ScenarioLogLock(c) ==
  /\ \A b \in ScenarioCallers : b < c => callers[b].pc = "done"
  /\ LogLock(c)

NextScenario ==
  \/ \E c \in ScenarioCallers : ScenarioLogLock(c)
  \/ \E c \in ScenarioCallers : LogFprintf(c)
  \/ \E c \in ScenarioCallers : LogCount(c)
  \/ \E c \in ScenarioCallers : LogReturn(c)
  \/ \E i \in DOMAIN rots : RotateLock(i)
  \/ \E i \in DOMAIN rots : RotateSwap(i)
  \/ \E i \in DOMAIN rots : RotateUnlock(i)
  \/ \E i \in DOMAIN rots : RotatePut(i)
  \/ \E i \in DOMAIN rots : RotateName(i)
  \/ \E i \in DOMAIN rots : RotateInc(i)
  \/ \E i \in DOMAIN rots : RotateCreate(i)
  \/ \E i \in DOMAIN rots : RotateOpen(i)
  \/ \E i \in DOMAIN rots : RotateCopy(i)
  \/ \E i \in DOMAIN rots : RotateRemove(i)
  \/ FindCurRead
  \/ FindCurSet

SpecScenario == InitScenario /\ [][NextScenario]_vars

(***************************************************************************)
(* The rendering of one record by Log, for every format and request.       *)
(***************************************************************************)
InitFormat ==
  /\ InitOf({{}}, Callers, Threshold, 1..MaxRec, {<<>>}, Formats, Requests)
  /\ LogDestination = "Both"

\* the switch on LogFormat and its fmt.Fprintf
LogRender ==
  /\ rendered = <<>>
  /\ rendered' = <<LogBytes(LogFormat, request)>>
  /\ UNCHANGED <<LogDestination, MaxFileSize, recLens, startDir, LogFormat,
                 request, logState, pool, mu, rand, cur, fsState, archDir,
                 stdout, callers, rots, fc, panicked, history>>

NextFormat == LogRender

SpecFormat == InitFormat /\ [][NextFormat]_vars

(***************************************************************************)
(* findCur alone, on every listing made of the entries below.              *)
(***************************************************************************)
\* archive numbers the listings of SpecFindCur are made of
FindCurNumbers == {0, 1, 7, 12, 100}
FindCurEntries == {ArchiveName(n) : n \in FindCurNumbers} \cup {OtherEntry, LogName}

InitFindCur == InitWith(SUBSET FindCurEntries) /\ LogDestination = "Both"

NextFindCur == FindCurRead \/ FindCurSet

SpecFindCur == InitFindCur /\ [][NextFindCur]_vars

(***************************************************************************)
(* Properties.                                                             *)
(***************************************************************************)
\* the goroutines inside the section between Lock and Unlock
InCritical ==
  {c \in Callers : callers[c].pc \in {"fmt", "count", "ret"}}
    \cup {RotId(i) : i \in {j \in DOMAIN rots : rots[j].pc \in {"swap", "unlock"}}}

\* the inodes temporary names refer to
TmpInodes == {tmpDir[e] : e \in DOMAIN tmpDir}

\* every Log call returned, every Rotate returned, findCur returned, no panic
Quiescent ==
  /\ ~panicked
  /\ fc.pc = "done"
  /\ \A c \in DOMAIN callers : callers[c].pc = "done"
  /\ \A i \in DOMAIN rots : rots[i].pc = "done"

\* how often record r occurs in a file content
RECURSIVE Count(_, _)
Count(content, r) ==
  IF content = <<>> THEN 0
  ELSE (IF Head(content) = r THEN 1 ELSE 0) + Count(Tail(content), r)

RECURSIVE SumOver(_, _)
SumOver(entries, r) ==
  IF entries = {} THEN 0
  ELSE LET e == CHOOSE x \in entries : TRUE
       IN  Count(archDir[e], r) + SumOver(entries \ {e}, r)

\* occurrences of record r in the active log file and the archives together
Occurrences(r) == Count(inodes[logEntry], r) + SumOver(DOMAIN archDir, r)

\* C1: whenever no goroutine is between Lock and Unlock, Log.size is the number
\* of bytes appended to the open active log file since the last rotation (or
\* found in it at NewLog), whatever LogDestination is.
C1_SizeIsBytesAppended == mu = 0 => size = appended

\* C2: every Rotate started answers one crossing of the threshold: as many
\* Rotate goroutines were started as Log calls took size from below MaxFileSize
\* to MaxFileSize or above.
C2_OneRotatePerCrossing == Len(rots) = crossings

\* C3: once all Log calls and rotations have returned, every record a Log call
\* appended to a file occurs exactly once in the active log file and the
\* archives together.
C3_NoRecordLostOrDuplicated ==
  Quiescent => \A r \in filed : Occurrences(r) = 1

\* C4: the step in which Rotate releases the lock leaves size 0 and an empty,
\* newly created file at LogName that is Log.file; and no step changes the
\* content of a file other than the active one at LogName, in particular never
\* that of a file renamed to a temporary name.
C4_FreshFileAfterRotate ==
  [][/\ \A i \in DOMAIN rots :
          (rots[i].pc = "unlock" /\ rots'[i].pc = "put") =>
            /\ size' = 0
            /\ file' = logEntry'
            /\ inodes'[logEntry'] = <<>>
            /\ logEntry' \notin {tmpDir'[e] : e \in DOMAIN tmpDir'}
            /\ out'.file \in {NoFile, logEntry'}
     /\ \A k \in DOMAIN inodes :
          inodes'[k] # inodes[k] => (k = logEntry /\ k = file /\ k \notin TmpInodes)
    ]_vars

\* C4 witness: a rotation has renamed the log and not yet removed the temporary
\* file, and a later Log call has written into the new active file.
C4_Witness ==
  /\ \E i \in DOMAIN rots :
       /\ rots[i].pc \in {"put", "name", "inc", "create", "open", "copy", "remove"}
       /\ rots[i].name \in DOMAIN tmpDir
  /\ logEntry > 1
  /\ inodes[logEntry] # <<>>
  /\ size > 0

\* C5: at most one goroutine is between Lock and Unlock and it is the holder of
\* the lock; Log.file, Log.size, Log.out and the bytes of the sink change only
\* in steps of the holder; between the append and the size update of a Log call
\* none of them changes.
C5_MutualExclusion ==
  /\ [](/\ Cardinality(InCritical) <= 1
        /\ \A t \in InCritical : mu = t
        /\ (InCritical = {} => mu = 0))
  /\ [][/\ (file' # file \/ size' # size \/ out' # out \/ inodes' # inodes
              \/ stdout' # stdout) => (mu # 0 /\ mu' = mu)
        /\ \A c \in Callers :
             (callers[c].pc = "count" /\ callers'[c].pc = "count") =>
               UNCHANGED <<file, size, out, inodes, stdout>>
       ]_vars

\* C5 witness: one Log call is inside the section, having appended and counted,
\* while another Log call and a Rotate both wait for the lock.
C5_Witness ==
  \E c \in Callers :
    /\ callers[c].pc = "ret"
    /\ \E d \in Callers : callers[d].pc = "lock"
    /\ \E i \in DOMAIN rots : rots[i].pc = "lock"

\* the rotations that have read cur for their archive name
Named == {i \in DOMAIN rots : rots[i].pc \notin {"lock", "swap", "unlock", "put", "name"}}

\* C6: once findCur has returned, cur never decreases, and no two rotations
\* build their archive name from the same value of cur.
C6_CurNeverReused ==
  /\ [][fc.pc = "done" => cur' >= cur]_vars
  /\ [](\A i \in Named : \A j \in Named : i # j => rots[i].num # rots[j].num)

\* the number between the last '#' and the trailing "_.gz" of an archive entry
ArchiveNumber(e) ==
  ParseInt(Slice(e, LastIndex(e, ChHash) + 1, Len(e) - Len(GzSuffix))).val

\* the result the specification gives for a listing
ReferenceCur(names) ==
  LET archives == {e \in names : HasSuffix(e, GzSuffix)}
  IN  IF archives = {} THEN 0 ELSE ArchiveNumber(SortedLast(archives))

\* C7: when findCur has returned, cur is 0 for an empty listing and otherwise
\* the whole number of the lexicographically last entry ending in "_.gz".
C7_FindCurReference == fc.pc = "done" => cur = ReferenceCur(fc.names)

\* C8: a rotation that reads cur after findCur has returned builds an archive
\* name that is not the name of an archive found at startup.
C8_NoOldArchiveOverwritten ==
  \A i \in Named : rots[i].recovered => ArchiveName(rots[i].num) \notin startDir

\* the rotations that hold a name they got from the pool and have not put back
Holding == {i \in DOMAIN rots : rots[i].pc \in {"unlock", "put"}}

\* C9: no two rotations hold the same checked-out name, and a name get makes
\* with randName, the pool being empty, is not the name of an existing file.
C9_NamesUnique ==
  /\ [](\A i \in Holding : \A j \in Holding : i # j => rots[i].name # rots[j].name)
  /\ [][\A i \in DOMAIN rots :
          (rots[i].pc = "swap" /\ rots'[i].pc = "unlock" /\ pool = <<>>) =>
            rots'[i].name \notin DOMAIN tmpDir]_vars

\* C10: no name in the pool is the name of a temporary file that exists.
C10_PutAfterArchive ==
  \A k \in 1..Len(pool) : pool[k] \notin DOMAIN tmpDir

\* C11: a Rotate of which the rename, the reopen, the archive creation, the copy
\* or the removal failed has not terminated the process, does not hold the lock
\* once it is over, and leaves Log.file the file at LogName with a sink that
\* writes to no other file.
C11_FailureKeepsWriterUsable ==
  \A i \in DOMAIN rots :
    rots[i].fail # "none" =>
      /\ ~panicked
      /\ rots[i].pc \in {"done", "panic"} => mu # RotId(i)
      /\ file = logEntry
      /\ file # NoFile
      /\ out.file \in {NoFile, file}

\* the rotations in the archival phase, after l.Unlock()
Archiving ==
  {i \in DOMAIN rots :
     rots[i].pc \in {"put", "name", "inc", "create", "open", "copy", "remove"}}

\* C12: a Rotate in its archival phase (putting the name back, naming, creating
\* the archive, copying, removing the temporary file) does not hold the lock.
C12_ArchivalOutsideLock == \A i \in Archiving : mu # RotId(i)

\* C12 witness: while a Rotate is still archiving, a Log call has taken the
\* lock, appended its record to the new active file and counted it.
C12_Witness ==
  \E i \in Archiving : \E c \in Callers :
    /\ callers[c].pc = "ret"
    /\ mu = c
    /\ rots[i].moved # logEntry
    /\ Count(inodes[logEntry], callers[c].rec) = 1

\* C13: a Log call that returned and a Rotate that returned or panicked do not
\* hold the lock, and no goroutine waiting for the lock is its holder.
C13_LockReleasedOnExit ==
  /\ \A c \in DOMAIN callers : callers[c].pc \in {"lock", "done"} => mu # c
  /\ \A i \in DOMAIN rots :
       rots[i].pc \in {"lock", "done", "panic"} => mu # RotId(i)

\* a Log call has counted its record: it is past the trigger test
Counted(c) == callers[c].pc \in {"ret", "done"}

\* C14: a Log call starts a Rotate exactly when the size after its write is at
\* least MaxFileSize; of five successive writes of 30 bytes with MaxFileSize 100
\* the first three start none and the fourth starts one; the file the first
\* record went to holds the records 1 to 4 when a Rotate renames it; and when
\* everything has returned an archive holds the records 1 to 4.
C14_TriggerAfterWrite ==
  /\ [][\A c \in ScenarioCallers :
          (callers[c].pc = "count" /\ callers'[c].pc = "ret") =>
            (Len(rots') = Len(rots) + 1 <=> size' >= MaxFileSize)]_vars
  /\ []((Counted(3) /\ ~Counted(4)) => rots = <<>>)
  /\ [](Counted(4) => Len(rots) >= 1)
  /\ [](\A i \in DOMAIN rots :
          rots[i].moved = 1 =>
            \A r \in 1..4 : Count(inodes[rots[i].moved], r) = 1)
  /\ [](Quiescent =>
          \E e \in DOMAIN archDir : \A r \in 1..4 : Count(archDir[e], r) = 1)

\* C15: newRandPool(PoolCap) leaves PoolCap names in the pool, the pool never
\* holds more, and a put on a full pool leaves the pool as it is.
C15_PoolBounded ==
  /\ Len(pool) = PoolCap
  /\ [](Len(pool) <= PoolCap)
  /\ [][\A i \in DOMAIN rots :
          (rots[i].pc = "put" /\ rots'[i].pc = "name" /\ Len(pool) = PoolCap) =>
            pool' = pool]_vars

\* C15 witness: a Rotate has put its name back on a full pool, and the name was
\* discarded.
C15_Witness ==
  \E i \in DOMAIN rots :
    /\ rots[i].pc = "name"
    /\ Len(pool) = PoolCap
    /\ \A k \in 1..Len(pool) : pool[k] # rots[i].name

\* C16: every record written went to standard output exactly when
\* LogDestination is Stdout or Both, and to a file exactly when it is File or
\* Both.
C16_SinkMatchesDestination ==
  \A r \in 1..Len(lens) :
    /\ Count(stdout, r) > 0 <=> LogDestination \in {"Stdout", "Both"}
    /\ r \in filed <=> LogDestination \in {"File", "Both"}

\* C17: every Rotate that has read cur did so after findCur had returned, and
\* findCur never assigns cur when a Rotate has read it.
C17_FindCurBeforeRotate ==
  /\ [](\A i \in Named : rots[i].recovered)
  /\ [][(fc.pc = "set" /\ fc'.pc = "done") => Named = {}]_vars

\* the rotations started and not over
InFlight == {i \in DOMAIN rots : rots[i].pc \notin {"done", "panic"}}

\* C18: at most one Rotate is between its start and its completion.
C18_OneRotationInFlight == Cardinality(InFlight) <= 1

\* the i-th Rotate is over: it replaced the active file and reset size, it
\* copied the file it had renamed into its archive and it removed the
\* temporary file
Served(i) ==
  /\ rots[i].pc = "done"
  /\ rots[i].moved # NoFile
  /\ rots[i].src = rots[i].moved

\* C19: under fair scheduling every Rotate a Log call started is eventually
\* over, with size reset and a new active file, the content of the renamed file
\* copied into an archive, and the temporary file removed: again and again all
\* the Rotates started so far are in that state.
C19_RotationCompletes == []<>(\A i \in DOMAIN rots : Served(i))

\* the bytes are one line: a newline at the end and nowhere else
OneLine(bytes) ==
  /\ bytes # <<>>
  /\ bytes[Len(bytes)] = ChNewline
  /\ \A k \in 1..(Len(bytes) - 1) : bytes[k] # ChNewline

\* C20: in each of the five formats the bytes one Log call writes are exactly
\* one line.
C20_OneLinePerRecord == \A k \in 1..Len(rendered) : OneLine(rendered[k])

====
